---- MODULE Spec2Model ----
(***************************************************************************)
(* Model of abcd.py: Gaussian beam q-parameter propagation through a list  *)
(* of positioned ABCD matrices (qpropagate, qABCD, qreverse and the four   *)
(* matrix constructors).                                                   *)
(*                                                                         *)
(* Numbers.  Python floats / complex numbers are modelled by exact         *)
(* rationals <<n, d>> (d > 0, lowest terms) and complex values <<re, im>>. *)
(* A division by zero is performed by numpy scalars (qABCD multiplies q by *)
(* entries of an ndarray), which yields inf/nan components instead of an   *)
(* exception; every later operation on such a value keeps a nan component. *)
(* That whole class of values is the single value Degenerate.              *)
(*                                                                         *)
(* Objects.  Python lists are mutable objects reached through references:  *)
(* heap maps a reference to the current content of the list it names.      *)
(* An element [z-location, matrix] is the pair <<pos, mid>>, mid being the *)
(* identity of the ndarray object; mats maps it to the array's content.    *)
(***************************************************************************)
EXTENDS Integers, Sequences, FiniteSets, TLC

\* ------------------------------------------------------------------ bounds
\* positions and locations range over 0..MaxPos
MaxPos == 2
\* the caller's element collection holds at most MaxElems elements
MaxElems == 2

\* ------------------------------------------------------- rational numbers
Abs(n) == IF n < 0 THEN -n ELSE n

RECURSIVE GCD(_, _)
GCD(a, b) == IF b = 0 THEN a ELSE GCD(b, a % b)

\* not-a-number / infinity: the outcome of a float division by zero
NaN == <<0, 0>>

IsNaN(x) == x[2] = 0

\* the float n/d (d = 0: degenerate)
Rat(n, d) ==
    IF d = 0 THEN NaN
    ELSE LET g == GCD(Abs(n), Abs(d))
             s == IF d < 0 THEN -1 ELSE 1
         IN  <<(s * n) \div g, (s * d) \div g>>

\* float(n)
Float(n) == <<n, 1>>

\* x + y over the least common denominator
RAdd(x, y) == IF IsNaN(x) \/ IsNaN(y) THEN NaN
              ELSE LET g == GCD(x[2], y[2]) IN
                   Rat(x[1] * (y[2] \div g) + y[1] * (x[2] \div g),
                       (x[2] \div g) * y[2])

RNeg(x) == IF IsNaN(x) THEN NaN ELSE <<-x[1], x[2]>>

RSub(x, y) == RAdd(x, RNeg(y))

\* (a/b) * (c/d), the common factors of a, d and of c, b cancelled first
RMul(x, y) == IF IsNaN(x) \/ IsNaN(y) THEN NaN
              ELSE LET g == GCD(Abs(x[1]), y[2])
                       h == GCD(Abs(y[1]), x[2])
                   IN  Rat((x[1] \div g) * (y[1] \div h),
                           (x[2] \div h) * (y[2] \div g))

\* x / y; a zero divisor gives the degenerate float
RDiv(x, y) == IF IsNaN(x) \/ IsNaN(y) \/ y[1] = 0 THEN NaN
              ELSE RMul(x, IF y[1] < 0 THEN <<-y[2], -y[1]>> ELSE <<y[2], y[1]>>)

\* -------------------------------------------------------- complex numbers
\* any complex value with an inf/nan component
Degenerate == <<NaN, NaN>>

Cx(re, im) == IF IsNaN(re) \/ IsNaN(im) THEN Degenerate ELSE <<re, im>>

IsDegenerate(q) == q = Degenerate

\* the complex literal a + b*1j for integers a, b
Complex(a, b) == <<Float(a), Float(b)>>

\* complex + real
CAddReal(q, x) == Cx(RAdd(q[1], x), q[2])

\* real * complex
CScale(x, q) == Cx(RMul(x, q[1]), RMul(x, q[2]))

CNeg(q) == Cx(RNeg(q[1]), RNeg(q[2]))

\* numpy.conj
conj(q) == Cx(q[1], RNeg(q[2]))

\* complex / complex: (a+bi)/(c+di) = ((ac+bd) + (bc-ad)i) / (c^2+d^2)
CDiv(p, q) ==
    LET a == p[1]  b == p[2]  c == q[1]  d == q[2]
        den == RAdd(RMul(c, c), RMul(d, d))
    IN  Cx(RDiv(RAdd(RMul(a, c), RMul(b, d)), den),
           RDiv(RSub(RMul(b, c), RMul(a, d)), den))

\* ---------------------------------------------------------- ABCD matrices
Mprop(d) == << <<Float(1), Float(d)>>, <<Float(0), Float(1)>> >>

Minterface(n0, n1) ==
    << <<Float(1), Float(0)>>, <<Float(0), RDiv(Float(n0), Float(n1))>> >>

Mlens(f) ==
    << <<Float(1), Float(0)>>, <<RDiv(Float(-1), Float(f)), Float(1)>> >>

Mmirror(R) ==
    << <<Float(1), Float(0)>>, <<RDiv(Float(2), Float(R)), Float(1)>> >>

\* ---------------------------------------------------- q-parameter formulas
\* (M[0,0]*q + M[0,1]) / (M[1,0]*q + M[1,1])
qABCD(q, M) ==
    CDiv(CAddReal(CScale(M[1][1], q), M[1][2]),
         CAddReal(CScale(M[2][1], q), M[2][2]))

qreverseNoNegate(q) == conj(q)

\* -conj(q)
qreverse(q) == CNeg(conj(q))

\* --------------------------------------------------------------- elements
\* identities of the ndarray objects the caller built with the constructors
MatIds == {"prop", "iface", "lens", "mirror"}

\* content of each ndarray object
InitMats ==
    [m \in MatIds |->
        CASE m = "prop"   -> Mprop(1)
          [] m = "iface"  -> Minterface(1, 2)
          [] m = "lens"   -> Mlens(1)
          [] m = "mirror" -> Mmirror(1)]

Positions == 0 .. MaxPos

\* an optical element [z-location, ABCD matrix]
Elements == Positions \X MatIds

\* the element collections a caller can pass
ElementLists == UNION {[1 .. n -> Elements] : n \in 0 .. MaxElems}

\* the q-parameters a caller can pass: a beam (imaginary part > 0) and a real
\* value, which an element can send to a division by zero
QValues == {Complex(1, 2), Complex(1, 0)}

\* ------------------------------------------------------------ list methods
\* el_a < el_b on two [pos, matrix] lists first looks for the first index at
\* which the items differ (identity, then ==).  Equal positions lead to
\* matrix_a == matrix_b on two distinct ndarrays, whose truth value raises
\* ValueError; the same ndarray object is equal by identity.
ElemCmpRaises(a, b) == a[1] = b[1] /\ a[2] # b[2]

ElemLt(a, b) == a[1] < b[1]

Returned(s) == [raised |-> FALSE, list |-> s]

Raised == [raised |-> TRUE, list |-> <<>>]

\* insert x into the ascending list s, comparing from the right (stable)
RECURSIVE Insert(_, _)
Insert(x, s) ==
    IF s = <<>> THEN Returned(<<x>>)
    ELSE LET y == s[Len(s)] IN
         IF ElemCmpRaises(x, y) THEN Raised
         ELSE IF ElemLt(x, y)
              THEN LET r == Insert(x, SubSeq(s, 1, Len(s) - 1)) IN
                   IF r.raised THEN Raised ELSE Returned(Append(r.list, y))
              ELSE Returned(Append(s, x))

RECURSIVE InsertionSort(_)
InsertionSort(s) ==
    IF s = <<>> THEN Returned(<<>>)
    ELSE LET r == InsertionSort(SubSeq(s, 1, Len(s) - 1)) IN
         IF r.raised THEN Raised ELSE Insert(s[Len(s)], r.list)

ListSortOmitted(s) == Returned(s)

\* list.sort(): ascending and stable, or the exception of a comparison
ListSort(s) == InsertionSort(s)

ListReverseOmitted(s) == s

\* list.reverse()
ListReverse(s) == [i \in 1 .. Len(s) |-> s[Len(s) + 1 - i]]

\* list.pop(): the last item and the rest
PopItem(s) == s[Len(s)]

PopRest(s) == SubSeq(s, 1, Len(s) - 1)

\* references to list objects: the caller's list and the one elements[:] builds
Refs == {"caller", "copy"}

SliceCopyAliased(r) == r

\* elements[:] allocates a new list object
SliceCopy(r) == "copy"

\* ------------------------------------------------------ qpropagate, pieces
\* qt += d
OffsetSubtracts(q, d) == CAddReal(q, Float(-d))

Offset(q, d) == CAddReal(q, Float(d))

InSpanFwdExclusive(p, zt, z) == zt < p /\ p <= z

\* zt <= el[0] <= z
InSpanFwd(p, zt, z) == zt <= p /\ p <= z

InSpanBwdUnbounded(p, zt, z) == p <= zt

\* z <= el[0] <= zt
InSpanBwd(p, zt, z) == z <= p /\ p <= zt

\* qt += gap; qt = qABCD(qt, el[1])
ApplyElement(q, gap, M) == qABCD(Offset(q, gap), M)

BwdFinishUnreversed(q, zt, z) == Offset(q, zt - z)

\* qt += zt - z; qt = qreverse(qt)
BwdFinish(q, zt, z) == qreverse(Offset(q, zt - z))

\* ------------------------------------------------------------------ state
VARIABLES
    zini,       \* argument: location of the known q-parameter
    qini,       \* argument: the known q-parameter
    z,          \* argument: location of the output q-parameter
    heap,       \* content of each list object
    mats,       \* content of each ndarray object
    elements,   \* the list object the local name elements refers to
    zt,         \* local: walked location
    qt,         \* local: q-parameter at the walked location; the return value
    pc,         \* position in qpropagate
    orig,       \* history: the caller's collection when the call was made
    log         \* history: the operations performed on qt and on the list

vars == <<zini, qini, z, heap, mats, elements, zt, qt, pc, orig, log>>

\* entries of log
Gap(d) == <<"gap", d, "">>

Abcd(el) == <<"abcd", el[1], el[2]>>

Pop(el) == <<"pop", el[1], el[2]>>

Rev == <<"rev", 0, "">>

\* a call qpropagate(zini, qini, elements, z); zt and qt are not yet bound
Init ==
    /\ zini \in Positions
    /\ z \in Positions
    /\ qini \in QValues
    /\ orig \in ElementLists
    /\ heap = [r \in Refs |-> IF r = "caller" THEN orig ELSE <<>>]
    /\ mats = InitMats
    /\ elements = "caller"
    /\ zt = 0
    /\ qt = Complex(0, 0)
    /\ pc = "copy"
    /\ log = <<>>

\* elements = elements[:]
Copy ==
    /\ pc = "copy"
    /\ elements' = SliceCopy(elements)
    /\ heap' = [heap EXCEPT ![SliceCopy(elements)] = heap[elements]]
    /\ pc' = "sort"
    /\ UNCHANGED <<zini, qini, z, mats, zt, qt, orig, log>>

\* elements.sort() returns; zt = zini; qt = qini
SortReturns ==
    /\ pc = "sort"
    /\ ~ListSort(heap[elements]).raised
    /\ heap' = [heap EXCEPT ![elements] = ListSort(heap[elements]).list]
    /\ zt' = zini
    /\ qt' = qini
    /\ pc' = "branch"
    /\ UNCHANGED <<zini, qini, z, mats, elements, orig, log>>

\* elements.sort() raises ValueError, which leaves qpropagate
SortRaises ==
    /\ pc = "sort"
    /\ ListSort(heap[elements]).raised
    /\ pc' = "raised"
    /\ UNCHANGED <<zini, qini, z, heap, mats, elements, zt, qt, orig, log>>

\* if z >= zini: elements.reverse()
EnterForward ==
    /\ pc = "branch"
    /\ z >= zini
    /\ heap' = [heap EXCEPT ![elements] = ListReverse(heap[elements])]
    /\ pc' = "fwd"
    /\ UNCHANGED <<zini, qini, z, mats, elements, zt, qt, orig, log>>

\* else: qt = qreverse(qt)
EnterBackward ==
    /\ pc = "branch"
    /\ ~(z >= zini)
    /\ qt' = qreverse(qt)
    /\ log' = Append(log, Rev)
    /\ pc' = "bwd"
    /\ UNCHANGED <<zini, qini, z, heap, mats, elements, zt, orig>>

\* forward loop: el = elements.pop(); zt <= el[0] <= z holds
FwdTake ==
    /\ pc = "fwd"
    /\ heap[elements] # <<>>
    /\ LET el == PopItem(heap[elements]) IN
        /\ InSpanFwd(el[1], zt, z)
        /\ qt' = ApplyElement(qt, el[1] - zt, mats[el[2]])
        /\ zt' = el[1]
        /\ log' = log \o <<Pop(el), Gap(el[1] - zt), Abcd(el)>>
    /\ heap' = [heap EXCEPT ![elements] = PopRest(heap[elements])]
    /\ UNCHANGED <<zini, qini, z, mats, elements, pc, orig>>

\* forward loop: el = elements.pop(); the condition fails
FwdSkip ==
    /\ pc = "fwd"
    /\ heap[elements] # <<>>
    /\ LET el == PopItem(heap[elements]) IN
        /\ ~InSpanFwd(el[1], zt, z)
        /\ log' = Append(log, Pop(el))
    /\ heap' = [heap EXCEPT ![elements] = PopRest(heap[elements])]
    /\ UNCHANGED <<zini, qini, z, mats, elements, zt, qt, pc, orig>>

\* forward loop ends: qt += z - zt; return qt
FwdExit ==
    /\ pc = "fwd"
    /\ heap[elements] = <<>>
    /\ qt' = Offset(qt, z - zt)
    /\ log' = Append(log, Gap(z - zt))
    /\ pc' = "done"
    /\ UNCHANGED <<zini, qini, z, heap, mats, elements, zt, orig>>

\* backward loop: el = elements.pop(); z <= el[0] <= zt holds
BwdTake ==
    /\ pc = "bwd"
    /\ heap[elements] # <<>>
    /\ LET el == PopItem(heap[elements]) IN
        /\ InSpanBwd(el[1], zt, z)
        /\ qt' = ApplyElement(qt, zt - el[1], mats[el[2]])
        /\ zt' = el[1]
        /\ log' = log \o <<Pop(el), Gap(zt - el[1]), Abcd(el)>>
    /\ heap' = [heap EXCEPT ![elements] = PopRest(heap[elements])]
    /\ UNCHANGED <<zini, qini, z, mats, elements, pc, orig>>

\* backward loop: el = elements.pop(); the condition fails
BwdSkip ==
    /\ pc = "bwd"
    /\ heap[elements] # <<>>
    /\ LET el == PopItem(heap[elements]) IN
        /\ ~InSpanBwd(el[1], zt, z)
        /\ log' = Append(log, Pop(el))
    /\ heap' = [heap EXCEPT ![elements] = PopRest(heap[elements])]
    /\ UNCHANGED <<zini, qini, z, mats, elements, zt, qt, pc, orig>>

\* backward loop ends: qt += zt - z; qt = qreverse(qt); return qt
BwdExit ==
    /\ pc = "bwd"
    /\ heap[elements] = <<>>
    /\ qt' = BwdFinish(qt, zt, z)
    /\ log' = log \o <<Gap(zt - z), Rev>>
    /\ pc' = "done"
    /\ UNCHANGED <<zini, qini, z, heap, mats, elements, zt, orig>>

Next ==
    \/ Copy
    \/ SortReturns
    \/ SortRaises
    \/ EnterForward
    \/ EnterBackward
    \/ FwdTake
    \/ FwdSkip
    \/ FwdExit
    \/ BwdTake
    \/ BwdSkip
    \/ BwdExit

Spec == Init /\ [][Next]_vars

\* ------------------------------------------- qpropagate as a pure function
\* the while loop of the forward branch and the statement after it
RECURSIVE FwdLoop(_, _, _, _)
FwdLoop(s, t, q, zz) ==
    IF s = <<>> THEN Offset(q, zz - t)
    ELSE LET el == PopItem(s) IN
         IF InSpanFwd(el[1], t, zz)
         THEN FwdLoop(PopRest(s), el[1], ApplyElement(q, el[1] - t, mats[el[2]]), zz)
         ELSE FwdLoop(PopRest(s), t, q, zz)

\* the while loop of the backward branch and the statements after it
RECURSIVE BwdLoop(_, _, _, _)
BwdLoop(s, t, q, zz) ==
    IF s = <<>> THEN BwdFinish(q, t, zz)
    ELSE LET el == PopItem(s) IN
         IF InSpanBwd(el[1], t, zz)
         THEN BwdLoop(PopRest(s), el[1], ApplyElement(q, t - el[1], mats[el[2]]), zz)
         ELSE BwdLoop(PopRest(s), t, q, zz)

\* the outcome of qpropagate(zi, qi, els, zz): an exception or the value q
QPropagate(zi, qi, els, zz) ==
    LET r == ListSort(els) IN
    IF r.raised THEN [raised |-> TRUE, q |-> Degenerate]
    ELSE IF zz >= zi
         THEN [raised |-> FALSE, q |-> FwdLoop(ListReverse(r.list), zi, qi, zz)]
         ELSE [raised |-> FALSE, q |-> BwdLoop(r.list, zi, qreverse(qi), zz)]

\* the step-by-step call and the pure function agree on every outcome
CallComputesQPropagate ==
    /\ pc = "done" => QPropagate(zini, qini, orig, z) = [raised |-> FALSE, q |-> qt]
    /\ pc = "raised" => QPropagate(zini, qini, orig, z).raised

\* ----------------------------------------------------------------- helpers
Min(a, b) == IF a <= b THEN a ELSE b

Max(a, b) == IF a >= b THEN a ELSE b

Range(s) == {s[i] : i \in DOMAIN s}

Count(s, x) == Cardinality({i \in DOMAIN s : s[i] = x})

\* the orderings of a collection
PermsOf(s) ==
    {[i \in DOMAIN s |-> s[f[i]]] : f \in Permutations(DOMAIN s)}

DistinctPositions(s) ==
    \A i, j \in DOMAIN s : i # j => s[i][1] # s[j][1]

\* two elements at one position whose matrices are different arrays
HasTie(s) ==
    \E i, j \in DOMAIN s : i # j /\ s[i][1] = s[j][1] /\ s[i][2] # s[j][2]

InClosedSpan(p) == Min(zini, z) <= p /\ p <= Max(zini, z)

Returns == pc = "done"

\* the sub-sequence of the entries of l of one kind
RECURSIVE Only(_, _)
Only(l, kind) ==
    IF l = <<>> THEN <<>>
    ELSE IF l[1][1] = kind THEN <<l[1]>> \o Only(Tail(l), kind)
         ELSE Only(Tail(l), kind)

RECURSIVE SumGaps(_)
SumGaps(l) == IF l = <<>> THEN 0 ELSE l[1][2] + SumGaps(Tail(l))

\* the value the logged operations produce from q, independently of qt
RECURSIVE Eval(_, _)
Eval(l, q) ==
    IF l = <<>> THEN q
    ELSE LET e == l[1] IN
         Eval(Tail(l),
              CASE e[1] = "gap"  -> CAddReal(q, Float(e[2]))
                [] e[1] = "abcd" -> qABCD(q, mats[e[3]])
                [] e[1] = "rev"  -> qreverse(q)
                [] e[1] = "pop"  -> q)

\* the location the logged gaps lead to from loc, walking in direction dir;
\* -1 when an element is applied anywhere else than at its own position
RECURSIVE Walk(_, _, _)
Walk(l, loc, dir) ==
    IF l = <<>> THEN loc
    ELSE LET e == l[1] IN
         IF e[1] = "gap" THEN Walk(Tail(l), loc + dir * e[2], dir)
         ELSE IF e[1] = "abcd" /\ e[2] # loc THEN -1
         ELSE Walk(Tail(l), loc, dir)

\* ------------------------------------------------------------------ claims

\* C1: element ordering invariance.  Whatever order the caller lists the
\* same [position, matrix] pairs in, qpropagate has the same outcome: the
\* value this call returned is the value of the call on every permutation of
\* the caller's collection (and a call that raised raises for all of them).
C1_OrderingInvariance ==
    /\ pc = "done" =>
         \A p \in PermsOf(orig) :
            QPropagate(zini, qini, p, z) = [raised |-> FALSE, q |-> qt]
    /\ pc = "raised" =>
         \A p \in PermsOf(orig) : QPropagate(zini, qini, p, z).raised

\* a returned call on a collection listed in descending position order whose
\* two elements are both applied and change the result
C1_Witness ==
    /\ pc = "done"
    /\ Len(orig) = 2
    /\ orig[1][1] > orig[2][1]
    /\ InClosedSpan(orig[1][1]) /\ InClosedSpan(orig[2][1])
    /\ ~IsDegenerate(qt)
    /\ qt # CAddReal(qini, Float(z - zini))

\* C2: no mutation of caller input.  In every state of a call, forward or
\* backward, the caller's collection holds the elements it held when the
\* call was made, in the same order, and every matrix is unchanged: the
\* sort, the reversal and the pops act on another list object.
C2_CallerInputUnchanged ==
    /\ heap["caller"] = orig
    /\ mats = InitMats

\* a returned call whose private list was reordered by the sort and emptied
\* by the pops
C2_Witness ==
    /\ pc = "done"
    /\ Len(orig) = 2
    /\ orig[1][1] > orig[2][1]
    /\ elements # "caller"
    /\ heap[elements] = <<>>

\* C3: span selection with inclusive boundaries.  An element outside
\* [min(zini, z), max(zini, z)] is never applied, no element is applied more
\* often than it occurs in the collection, and when the call returns every
\* element inside the closed span has been applied exactly once per
\* occurrence, those exactly at zini or z included.
C3_SpanSelection ==
    \A e \in Range(orig) \cup {<<log[k][2], log[k][3]>> : k \in DOMAIN log} :
        /\ ~InClosedSpan(e[1]) => Count(log, Abcd(e)) = 0
        /\ Count(log, Abcd(e)) <= Count(orig, e)
        /\ (Returns /\ InClosedSpan(e[1])) => Count(log, Abcd(e)) = Count(orig, e)

\* a returned forward call with one element exactly at zini and one exactly
\* at z, both applied
C3_Witness ==
    /\ pc = "done"
    /\ zini < z
    /\ \E i, j \in DOMAIN orig :
          /\ orig[i][1] = zini /\ orig[j][1] = z
          /\ Count(log, Abcd(orig[i])) = 1
          /\ Count(log, Abcd(orig[j])) = 1

\* a returned backward call with one element exactly at zini and one exactly
\* at z, both applied
C3_WitnessBackward ==
    /\ pc = "done"
    /\ z < zini
    /\ \E i, j \in DOMAIN orig :
          /\ orig[i][1] = zini /\ orig[j][1] = z
          /\ Count(log, Abcd(orig[i])) = 1
          /\ Count(log, Abcd(orig[j])) = 1

\* a returned call with z = zini that applied an element at that location
C3_WitnessStayingPut ==
    /\ pc = "done"
    /\ z = zini
    /\ \E i \in DOMAIN orig : orig[i][1] = z /\ Count(log, Abcd(orig[i])) = 1

\* C4: free-space propagation identity.  With an empty collection the call
\* returns qini + (z - zini): the real part shifted by z - zini, the
\* imaginary part unchanged, forward and backward.
C4_FreeSpaceIdentity ==
    (pc = "done" /\ orig = <<>>) =>
        /\ qt[1] = RAdd(qini[1], Float(z - zini))
        /\ qt[2] = qini[2]

\* a returned backward call on an empty collection, for a beam with a
\* non-zero real part
C4_Witness ==
    /\ pc = "done"
    /\ orig = <<>>
    /\ z < zini
    /\ qini[1] # Float(0)
    /\ Count(log, Rev) = 2

\* the positions of the entries of l, in order
PositionsOf(l) == [i \in DOMAIN l |-> l[i][2]]

Ascending(ps) == \A i, j \in DOMAIN ps : i < j => ps[i] <= ps[j]

Descending(ps) == \A i, j \in DOMAIN ps : i < j => ps[i] >= ps[j]

StrictlyAscending(ps) == \A i, j \in DOMAIN ps : i < j => ps[i] < ps[j]

\* manual step-by-step application through qABCD: walking the positions p,
\* p+1, ..., zz from the location at with value q, the element found at a
\* position is applied after Mprop of the distance walked since the last one,
\* and Mprop of the remaining distance is applied at the end
RECURSIVE ManualFrom(_, _, _, _, _)
ManualFrom(p, at, q, els, zz) ==
    IF p > zz THEN qABCD(q, Mprop(zz - at))
    ELSE IF \E i \in DOMAIN els : els[i][1] = p
         THEN LET el == els[CHOOSE i \in DOMAIN els : els[i][1] = p] IN
              ManualFrom(p + 1, p,
                         qABCD(qABCD(q, Mprop(p - at)), mats[el[2]]), els, zz)
         ELSE ManualFrom(p + 1, at, q, els, zz)

\* C5: engine composition equals manual step-by-step application.  For
\* z >= zini and elements at distinct positions, the returned value is the
\* one obtained through qABCD from Mprop(p1 - zini), M1, Mprop(p2 - p1), M2,
\* ..., Mk, Mprop(z - pk), the elements of [zini, z] taken in ascending
\* position order.
C5_EngineEqualsManual ==
    (pc = "done" /\ z >= zini /\ DistinctPositions(orig)) =>
        qt = ManualFrom(zini, zini, qini, orig, z)

\* a returned forward call that applied two elements, with free space before,
\* between and after them
C5_Witness ==
    /\ pc = "done"
    /\ zini = 0 /\ z = MaxPos
    /\ Len(orig) = 2
    /\ DistinctPositions(orig)
    /\ Len(Only(log, "abcd")) = 2
    /\ \E i \in DOMAIN log : log[i][1] = "gap" /\ log[i][2] > 0
    /\ ~IsDegenerate(qt)

\* C6: same-position elements are accepted.  A collection in which two
\* elements share a position, with different matrix arrays, is ordered
\* without an error being raised.
C6_TiesAccepted ==
    HasTie(orig) => pc # "raised"

\* what the forward branch does whatever the order: no direction reversal,
\* every element applied at its own position after the gap to it, the logged
\* operations produce qt, and the call ends with the remaining gap to z
ForwardSteps ==
    /\ Count(log, Rev) = 0
    /\ Walk(log, zini, 1) = (IF pc = "done" THEN z ELSE zt)
    /\ qt = Eval(log, qini)
    /\ pc = "done" => /\ heap[elements] = <<>>
                      /\ log[Len(log)] = Gap(z - zt)

\* C7 as stated: when z >= zini the elements are processed in descending
\* position order, the highest-position remaining element of
\* [walked location, z] first, each after the gap to it and moving the walked
\* location to it, the remaining gap to z coming last.
C7_ForwardDescending ==
    (z >= zini /\ pc \in {"fwd", "done"}) =>
        /\ ForwardSteps
        /\ Descending(PositionsOf(Only(log, "pop")))
        /\ Descending(PositionsOf(Only(log, "abcd")))
        /\ \A i \in DOMAIN heap[elements] :
              InSpanFwd(heap[elements][i][1], zt, z) =>
                 \A j \in DOMAIN heap[elements] :
                    InSpanFwd(heap[elements][j][1], zt, z) =>
                       heap[elements][j][1] <= heap[elements][Len(heap[elements])][1]

\* C7 amended: when z >= zini the elements are processed in ascending
\* position order: each step pops the lowest-position remaining element and,
\* if its position lies in [walked location, z], adds the gap to it, applies
\* its transform and moves the walked location to it; once no element remains
\* the remaining gap to z is added.
C7_ForwardAscending ==
    (z >= zini /\ pc \in {"fwd", "done"}) =>
        /\ ForwardSteps
        /\ Ascending(PositionsOf(Only(log, "pop")))
        /\ Ascending(PositionsOf(Only(log, "abcd")))
        /\ \A i \in DOMAIN heap[elements] :
              /\ heap[elements][Len(heap[elements])][1] <= heap[elements][i][1]
              /\ \A k \in DOMAIN log :
                    log[k][1] = "pop" => log[k][2] <= heap[elements][i][1]

\* a returned forward call that applied two elements at different positions
C7_Witness ==
    /\ pc = "done"
    /\ z >= zini
    /\ Len(Only(log, "abcd")) = 2
    /\ StrictlyAscending(PositionsOf(Only(log, "abcd")))

\* C8: backward traversal.  When z < zini the call first reverses qini, then
\* pops the elements in descending position order, the highest remaining
\* first, applying each one of [z, walked location] after the gap down to it
\* and lowering the walked location to it; after the last element it adds the
\* remaining gap down to z and reverses once more.  Direction reversal is
\* applied exactly twice, first and last, and never in the forward branch.
C8_BackwardTraversal ==
    /\ (z < zini /\ pc \in {"bwd", "done"}) =>
        /\ log[1] = Rev
        /\ Descending(PositionsOf(Only(log, "pop")))
        /\ Descending(PositionsOf(Only(log, "abcd")))
        /\ \A i \in DOMAIN heap[elements] :
              /\ heap[elements][i][1] <= heap[elements][Len(heap[elements])][1]
              /\ \A k \in DOMAIN log :
                    log[k][1] = "pop" => heap[elements][i][1] <= log[k][2]
        /\ Walk(log, zini, -1) = (IF pc = "done" THEN z ELSE zt)
        /\ qt = Eval(log, qini)
        /\ pc = "bwd" => Count(log, Rev) = 1
        /\ pc = "done" => /\ heap[elements] = <<>>
                          /\ Count(log, Rev) = 2
                          /\ log[Len(log)] = Rev
                          /\ log[Len(log) - 1] = Gap(zt - z)
    /\ z >= zini => Count(log, Rev) = 0

\* a returned backward call that applied two elements at different positions
\* to a beam with a non-zero real part at the end
C8_Witness ==
    /\ pc = "done"
    /\ z < zini
    /\ Len(Only(log, "abcd")) = 2
    /\ PositionsOf(Only(log, "abcd"))[1] > PositionsOf(Only(log, "abcd"))[2]
    /\ ~IsDegenerate(qt)
    /\ qt[1] # Float(0)

\* C9: backward propagation inverts forward propagation.  For zini < z and
\* elements at distinct positions, propagating the returned value back from
\* z to zini through the same elements gives qini.
C9_BackwardInvertsForward ==
    (pc = "done" /\ zini < z /\ DistinctPositions(orig)) =>
        QPropagate(z, qt, orig, zini) = [raised |-> FALSE, q |-> qini]

\* in the loop and after it the walked location lies between zini and z,
\* every gap added is non-negative, and at the return the gaps sum to
\* |z - zini| and every element was popped once
WalkedLocationState ==
    pc \in {"branch", "fwd", "bwd", "done"} =>
        /\ Min(zini, z) <= zt /\ zt <= Max(zini, z)
        /\ \A k \in DOMAIN log : log[k][1] = "gap" => log[k][2] >= 0
        /\ Len(Only(log, "pop")) + Len(heap[elements]) = Len(orig)
        /\ pc = "done" => /\ SumGaps(Only(log, "gap")) = Abs(z - zini)
                          /\ Len(Only(log, "pop")) = Len(orig)

\* a step of the loop moves the walked location toward z or leaves it
WalkedLocationStep ==
    pc \in {"fwd", "bwd"} =>
        IF z >= zini THEN zt' >= zt ELSE zt' <= zt

\* C10: walked-location invariant.  In every state of the loop zt lies in the
\* closed interval between zini and z and moves only toward z, every gap
\* added to q is non-negative, the gaps of a call sum to |z - zini|, and the
\* loop ends after exactly one pop per element.
C10_WalkedLocation ==
    []WalkedLocationState /\ [][WalkedLocationStep]_vars

\* a returned backward call that popped an element below z without applying
\* it, and applied another
C10_Witness ==
    /\ pc = "done"
    /\ z < zini
    /\ Len(Only(log, "pop")) = 2
    /\ Len(Only(log, "abcd")) = 1
    /\ \E k \in DOMAIN log : log[k][1] = "pop" /\ log[k][2] < z

====
